---------------------------- MODULE Spec2Model ----------------------------
(***************************************************************************)
(* The batched sequence allocator of src/src/sequence.rs: one process-wide *)
(* atomic counter SEQUENCE_GLOBAL and per-thread Sequencer objects, each   *)
(* caching a range [local, target) claimed from the counter by fetch_add.  *)
(*                                                                         *)
(* A call of Sequencer::inc touches shared memory at most twice (one       *)
(* relaxed load in try_alloc, one relaxed fetch_add in alloc), so it is    *)
(* modelled as the steps TryAlloc, Alloc and Inc, each atomic and holding  *)
(* at most one access of the counter; calls of different threads           *)
(* interleave between the steps.                                           *)
(*                                                                         *)
(* Sequence is a Width-bit unsigned integer.  fetch_add on an atomic wraps *)
(* in every build.  The operator + wraps when the build has overflow       *)
(* checks off (the release profile) and panics when it has them on (the    *)
(* debug profile): overflowChecks is the build, chosen in Init.            *)
(***************************************************************************)
EXTENDS Integers, Sequences, FiniteSets

\* ------------------------------------------------------------- bounds
\* Number of threads, each owning one Sequencer.
NumSeq == 2
\* Calls of inc() started in one behaviour, over all threads.
MaxCalls == 3
\* Bits of Sequence (u64 in the source, scaled down).
Width == 5
\* The largest batch size tried, also tried as a lag.
BigStep == 2

Seqs == 1..NumSeq

RECURSIVE Pow2(_)
Pow2(n) == IF n = 0 THEN 1 ELSE 2 * Pow2(n - 1)

\* Number of values of Sequence; Modulus - 1 is Sequence::MAX.
Modulus == Pow2(Width)

Sequence == 0..(Modulus - 1)

\* Values of step at construction (positive: the documented precondition).
StepSet == {1, BigStep}
\* Values of lag at construction: none, small, at least every step, maximal.
LagSet == {0, 1, BigStep, Modulus - 1}

VARIABLES
    global,          \* SEQUENCE_GLOBAL
    overflowChecks,  \* TRUE: + panics on overflow; FALSE: + wraps
    pc,              \* per thread: "none" | "idle" | "alloc" | "handout" | "panicked"
    local,           \* Sequencer.local, per thread
    target,          \* Sequencer.target, per thread
    step,            \* Sequencer.step, per thread
    lag,             \* Sequencer.lag, per thread
    call,            \* per thread: what the current (or last) call of inc did
    started,         \* number of calls of inc started so far
    issued,          \* history: per thread, the values inc returned, in order
    claims,          \* history: the fetch_add calls, in the counter's order, each
                     \* with the [local, target) = [lo, hi) it replaced
    overflowed       \* history: per thread, whether a + of it overflowed

vars == <<global, overflowChecks, pc, local, target, step, lag, call,
          started, issued, claims, overflowed>>

\* ------------------------------------------------------ arithmetic
\* A value reduced to the width of Sequence.
Wrap(x) == x % Modulus

\* a + b does not fit in Sequence.
Overflows(a, b) == a + b >= Modulus

\* ------------------------------------------------- the refill policy
\* Mutant of Exhausted: the comparison written as "past the end".
ExhaustedPast(l, t) == l > t

\* First trigger of try_alloc: the batch is used up.
Exhausted(l, t) == l = t

\* Mutant of Stale: the comparison reversed.
StaleReversed(l, lg, g) == Wrap(l + lg) > g

\* Mutant of Stale: the threshold is off by one.
StaleOffByOne(l, lg, g) == Wrap(l + lg + 1) < g

\* Second trigger of try_alloc, on the value g loaded from the counter.
Stale(l, lg, g) == Wrap(l + lg) < g

\* Mutant of FetchAdd: the counter is read but not advanced.
FetchAddLoadOnly(g, n) == g

\* Mutant of FetchAdd: the counter advances by one, not by the batch size.
FetchAddOne(g, n) == Wrap(g + 1)

\* The counter after fetch_add(n) on value g.
FetchAdd(g, n) == Wrap(g + n)

\* Mutant of NewTarget: the bound is one past the claimed batch.
NewTargetInclusive(l, st) == Wrap(l + st + 1)

\* target after a refill that set local to l.
NewTarget(l, st) == Wrap(l + st)

\* Mutant of NextLocal: the increment is lost.
NextLocalSame(l) == l

\* local after handing out l.
NextLocal(l) == Wrap(l + 1)

\* ------------------------------------------------------------ state
NoCall == [read |-> FALSE, seen |-> 0, refilled |-> FALSE, fa |-> 0,
           local0 |-> 0, target0 |-> 0]

Init ==
    /\ global = 0
    /\ overflowChecks \in BOOLEAN
    /\ pc = [s \in Seqs |-> "none"]
    /\ local = [s \in Seqs |-> 0]
    /\ target = [s \in Seqs |-> 0]
    /\ step = [s \in Seqs |-> 0]
    /\ lag = [s \in Seqs |-> 0]
    /\ call = [s \in Seqs |-> NoCall]
    /\ started = 0
    /\ issued = [s \in Seqs |-> <<>>]
    /\ claims = <<>>
    /\ overflowed = [s \in Seqs |-> FALSE]

\* Sequencer::new(st, lg), run by the thread's first access of its thread-local.
NewWith(s, st, lg) ==
    /\ pc[s] = "none"
    /\ pc' = [pc EXCEPT ![s] = "idle"]
    /\ local' = [local EXCEPT ![s] = 0]
    /\ target' = [target EXCEPT ![s] = 0]
    /\ step' = [step EXCEPT ![s] = st]
    /\ lag' = [lag EXCEPT ![s] = lg]
    /\ UNCHANGED <<global, overflowChecks, call, started, issued, claims, overflowed>>

New(s) == \E st \in StepSet, lg \in LagSet : NewWith(s, st, lg)

\* inc() is entered and try_alloc decides: local == target short-circuits,
\* otherwise local + lag is computed and then the counter is loaded.
TryAlloc(s) ==
    /\ pc[s] = "idle"
    /\ started < MaxCalls
    /\ started' = started + 1
    /\ LET entry == [NoCall EXCEPT !.local0 = local[s], !.target0 = target[s]]
       IN  IF Exhausted(local[s], target[s])
           THEN /\ pc' = [pc EXCEPT ![s] = "alloc"]
                /\ call' = [call EXCEPT ![s] = entry]
                /\ UNCHANGED overflowed
           ELSE IF Overflows(local[s], lag[s]) /\ overflowChecks
           THEN /\ pc' = [pc EXCEPT ![s] = "panicked"]
                /\ call' = [call EXCEPT ![s] = entry]
                /\ overflowed' = [overflowed EXCEPT ![s] = TRUE]
           ELSE /\ pc' = [pc EXCEPT ![s] =
                            IF Stale(local[s], lag[s], global)
                            THEN "alloc" ELSE "handout"]
                /\ call' = [call EXCEPT ![s] =
                            [entry EXCEPT !.read = TRUE, !.seen = global]]
                /\ overflowed' = [overflowed EXCEPT ![s] =
                            @ \/ Overflows(local[s], lag[s])]
    /\ UNCHANGED <<global, overflowChecks, local, target, step, lag, issued, claims>>

\* alloc(): one fetch_add(step), then target = local + step.
Alloc(s) ==
    /\ pc[s] = "alloc"
    /\ global' = FetchAdd(global, step[s])
    /\ local' = [local EXCEPT ![s] = global]
    /\ claims' = Append(claims, [by |-> s, start |-> global, len |-> step[s],
                                 call |-> Len(issued[s]) + 1,
                                 lo |-> local[s], hi |-> target[s]])
    /\ call' = [call EXCEPT ![s] = [@ EXCEPT !.refilled = TRUE, !.fa = global]]
    /\ overflowed' = [overflowed EXCEPT ![s] = @ \/ Overflows(global, step[s])]
    /\ IF Overflows(global, step[s]) /\ overflowChecks
       THEN /\ pc' = [pc EXCEPT ![s] = "panicked"]
            /\ UNCHANGED target
       ELSE /\ pc' = [pc EXCEPT ![s] = "handout"]
            /\ target' = [target EXCEPT ![s] = NewTarget(global, step[s])]
    /\ UNCHANGED <<overflowChecks, step, lag, started, issued>>

\* The rest of inc(): res = local; local += 1; return res.
Inc(s) ==
    /\ pc[s] = "handout"
    /\ overflowed' = [overflowed EXCEPT ![s] = @ \/ Overflows(local[s], 1)]
    /\ IF Overflows(local[s], 1) /\ overflowChecks
       THEN /\ pc' = [pc EXCEPT ![s] = "panicked"]
            /\ UNCHANGED <<local, issued>>
       ELSE /\ pc' = [pc EXCEPT ![s] = "idle"]
            /\ local' = [local EXCEPT ![s] = NextLocal(local[s])]
            /\ issued' = [issued EXCEPT ![s] = Append(@, local[s])]
    /\ UNCHANGED <<global, overflowChecks, target, step, lag, call, started, claims>>

Next == \E s \in Seqs : New(s) \/ TryAlloc(s) \/ Alloc(s) \/ Inc(s)

Spec == Init /\ [][Next]_vars

\* ------------------------------------------------- reading the history
\* The values of the half-open range a fetch_add granted.
Range(c) == c.start..(c.start + c.len - 1)

\* The indices in claims of the refills of thread s.
ClaimsOf(s) == {i \in 1..Len(claims) : claims[i].by = s}

\* The n-th call of inc() on thread s performed a fetch_add.
Refilled(s, n) == \E i \in ClaimsOf(s) : claims[i].call = n

\* The value that fetch_add returned to the n-th call of thread s.
RefillStart(s, n) == claims[CHOOSE i \in ClaimsOf(s) : claims[i].call = n].start

\* The pairs <<thread, call number>> of the calls that have returned.
Returned == {<<s, n>> \in Seqs \X (1..MaxCalls) : n <= Len(issued[s])}

\* ---------------------------------------------------------------- C1
\* C1: no value is ever returned twice, neither by two calls on the same
\* Sequencer nor by calls on two different Sequencers, whatever their steps
\* (>= 1) and lags and however their calls interleave.
C1_Uniqueness ==
    \A p, q \in Returned :
        p # q => issued[p[1]][p[2]] # issued[q[1]][q[2]]

\* Two Sequencers with different steps have both returned values, one of
\* them twice.
C1_Witness ==
    \E s, t \in Seqs :
        /\ s # t
        /\ step[s] # step[t]
        /\ Len(issued[s]) >= 2
        /\ Len(issued[t]) >= 1

\* ---------------------------------------------------------------- C2
\* C2: the ranges [start, start + step) granted by all fetch_add calls so far
\* are pairwise disjoint.
C2_RangePartition ==
    \A i, j \in 1..Len(claims) :
        i # j => Range(claims[i]) \cap Range(claims[j]) = {}

\* Three ranges have been granted, to both threads, one of them longer than 1.
C2_Witness ==
    /\ Len(claims) >= 3
    /\ \A s \in Seqs : ClaimsOf(s) # {}
    /\ \E i \in 1..Len(claims) : claims[i].len > 1

\* ---------------------------------------------------------------- C3
\* C3: every call of inc() on a Sequencer returns a value strictly greater
\* than the one its previous call returned, across refills of both kinds.
C3_LocalMonotonic ==
    \A s \in Seqs : \A n \in 1..(Len(issued[s]) - 1) :
        issued[s][n + 1] > issued[s][n]

\* A Sequencer's second call returned after refilling an unexhausted batch
\* (staleness), the other thread having claimed in between.
C3_Witness ==
    \E s \in Seqs :
        /\ pc[s] = "idle"
        /\ Len(issued[s]) = 2
        /\ call[s].refilled
        /\ call[s].local0 < call[s].target0
        /\ issued[s][2] > issued[s][1] + 1

\* ---------------------------------------------------------------- C4
\* C4 as stated: each call of inc() on a Sequencer with positive step and
\* lag returns exactly the value of its previous call plus 1.  Only runs in
\* which none of its additions overflowed are looked at, so that a violation
\* does not rest on the overflow of local + lag.
C4_ExactlyPlusOne ==
    \A s \in Seqs : \A n \in 1..(Len(issued[s]) - 1) :
        (step[s] >= 1 /\ lag[s] >= 1 /\ ~overflowed[s]) =>
            issued[s][n + 1] = issued[s][n] + 1

\* C4 amended: a call that does not refill returns the previous value plus 1;
\* a call that refills returns the value its fetch_add returned, which is at
\* least the previous value plus 1.
C4_PlusOneUnlessRefill ==
    \A s \in Seqs : \A n \in 1..(Len(issued[s]) - 1) :
        IF Refilled(s, n + 1)
        THEN /\ issued[s][n + 1] = RefillStart(s, n + 1)
             /\ issued[s][n + 1] >= issued[s][n] + 1
        ELSE issued[s][n + 1] = issued[s][n] + 1

\* A Sequencer with a positive lag returned its second value without
\* refilling, after the other thread had a call return.
C4_Witness ==
    \E s, t \in Seqs :
        /\ s # t
        /\ lag[s] >= 1
        /\ Len(issued[s]) = 2
        /\ ~Refilled(s, 2)
        /\ Len(issued[t]) = 1

\* ---------------------------------------------------------------- C5
\* C5: between calls every Sequencer has local <= target, and every value of
\* [local, target) lies in a range this Sequencer claimed and in no range
\* another Sequencer claimed.
C5_AllocatorInvariant ==
    \A s \in Seqs :
        pc[s] = "idle" =>
            /\ local[s] <= target[s]
            /\ \A v \in local[s]..(target[s] - 1) :
                /\ \E i \in ClaimsOf(s) : v \in Range(claims[i])
                /\ \A i \in 1..Len(claims) :
                       claims[i].by # s => v \notin Range(claims[i])

\* A Sequencer on its second batch holds unissued values while the other
\* thread has claimed too.
C5_Witness ==
    \E s, t \in Seqs :
        /\ s # t
        /\ pc[s] = "idle"
        /\ local[s] < target[s]
        /\ Cardinality(ClaimsOf(s)) >= 2
        /\ ClaimsOf(t) # {}

\* ---------------------------------------------------------------- C6
\* The counter is far below the end of Sequence's range.
CounterFarBelowMax == 2 * global < Modulus

\* C6: for every Sequencer with positive step and lag, while the counter is
\* far below 2^Width, no addition of any call (local + lag, local + step,
\* local + 1) overflows, and so no call panics.
C6_NoOverflow ==
    \A s \in Seqs :
        (step[s] >= 1 /\ lag[s] >= 1 /\ CounterFarBelowMax) =>
            /\ ~overflowed[s]
            /\ pc[s] # "panicked"

\* ---------------------------------------------------------------- C7
\* Thread s is the only one that has called inc().
Sole(s) ==
    /\ pc[s] # "none"
    /\ \A t \in Seqs \ {s} :
        /\ pc[t] \in {"none", "idle"}
        /\ issued[t] = <<>>
        /\ ClaimsOf(t) = {}

\* With s the only caller: call n returned n - 1, refill k claimed
\* [(k-1)*step, k*step) and was made by call (k-1)*step + 1, every returned
\* call of that form refilled, and no call panicked.
CountsFromZero(s) ==
    /\ pc[s] # "panicked"
    /\ \A n \in 1..Len(issued[s]) : issued[s][n] = n - 1
    /\ \A k \in 1..Len(claims) :
        /\ claims[k].start = (k - 1) * step[s]
        /\ claims[k].len = step[s]
        /\ claims[k].call = (k - 1) * step[s] + 1
    /\ \A n \in 1..Len(issued[s]) :
        (n - 1) % step[s] = 0 => Refilled(s, n)

\* C7: a single Sequencer with step >= 1 and lag >= step on a fresh counter
\* returns 0, 1, 2, ... and refills exactly on calls 1, step + 1, ..., the
\* k-th refill claiming [(k-1)*step, k*step).
C7_SoleSequence ==
    \A s \in Seqs :
        (Sole(s) /\ step[s] >= 1 /\ lag[s] >= step[s]) => CountsFromZero(s)

\* The same for the lags with which local + lag stays inside Sequence in
\* every call the bound lets one thread make: the behaviour C7 describes.
SoleSequenceInRange ==
    \A s \in Seqs :
        (/\ Sole(s)
         /\ step[s] >= 1
         /\ lag[s] >= step[s]
         /\ ~Overflows(MaxCalls, lag[s])) => CountsFromZero(s)

\* A lone Sequencer with step BigStep and lag BigStep returned 0, 1, ... and
\* refilled a second time when its first batch was used up.
SoleSequenceInRangeReached ==
    \E s \in Seqs :
        /\ Sole(s)
        /\ step[s] = BigStep
        /\ lag[s] = BigStep
        /\ Len(issued[s]) = BigStep + 1
        /\ Cardinality(ClaimsOf(s)) = 2

\* ---------------------------------------------------------------- C8
\* C8: the first call on a fresh Sequencer always refills; a call that
\* refills returns the value its fetch_add returned; the first fetch_add of
\* all returns 0 and the second one the first one's step, so that 0 is
\* returned to the first claimant and to nobody else.
C8_FirstCallAndRefill ==
    /\ \A s \in Seqs :
        (Len(issued[s]) >= 1 \/ pc[s] = "handout") => Refilled(s, 1)
    /\ \A i \in 1..Len(claims) :
        LET c == claims[i]
        IN  /\ (pc[c.by] = "handout" /\ c.call = Len(issued[c.by]) + 1)
                   => local[c.by] = c.start
            /\ c.call <= Len(issued[c.by]) => issued[c.by][c.call] = c.start
    /\ Len(claims) >= 1 =>
        /\ claims[1].start = 0
        /\ claims[1].call = 1
    /\ Len(claims) >= 2 =>
        /\ claims[2].start = claims[1].len
        /\ claims[2].len = step[claims[2].by]
    /\ \A p \in Returned :
        issued[p[1]][p[2]] = 0 => (p[1] = claims[1].by /\ p[2] = 1)

\* Thread A's first call claimed [0, BigStep) and returned 0, then thread
\* B's first call claimed [BigStep, 2*BigStep) and returned BigStep.
C8_Witness ==
    \E a, b \in Seqs :
        /\ a # b
        /\ Len(claims) = 2
        /\ claims[1] = [by |-> a, start |-> 0, len |-> BigStep, call |-> 1,
                        lo |-> 0, hi |-> 0]
        /\ claims[2] = [by |-> b, start |-> BigStep, len |-> BigStep, call |-> 1,
                        lo |-> 0, hi |-> 0]
        /\ issued[a] = <<0>>
        /\ issued[b] = <<BigStep>>

\* ---------------------------------------------------------------- C9
\* The current or last call of thread s entered with an unexhausted batch and
\* loaded a counter value more than lag ahead of local.
StaleAtRead(s) ==
    /\ call[s].read
    /\ call[s].local0 < call[s].target0
    /\ call[s].local0 + lag[s] < call[s].seen

\* C9: a call entered with local < target that reads a counter value g with
\* local + lag < g performs a fetch_add and returns its result, which is at
\* least g and is not the next value of the old batch.
C9_StalenessRefill ==
    \A s \in Seqs :
        StaleAtRead(s) =>
            \/ pc[s] = "alloc"
            \/ /\ pc[s] \in {"handout", "idle"}
               /\ call[s].refilled
               /\ call[s].fa >= call[s].seen
               /\ call[s].fa # call[s].local0
               /\ pc[s] = "handout" => local[s] = call[s].fa
               /\ pc[s] = "idle" => issued[s][Len(issued[s])] = call[s].fa

\* A Sequencer with a positive lag, overtaken by the other thread while it
\* still held unissued values, has returned from the call that noticed it.
C9_Witness ==
    \E s \in Seqs :
        /\ StaleAtRead(s)
        /\ lag[s] >= 1
        /\ pc[s] = "idle"
        /\ Len(issued[s]) = 2

\* --------------------------------------------------------------- C10
\* C10: the counter never decreases in a step, and every fetch_add returns a
\* value strictly greater than every value a fetch_add returned before it
\* (so no two fetch_add calls return the same value).
C10_CounterMonotonic ==
    [][/\ global' >= global
       /\ claims' # claims =>
            /\ Len(claims') = Len(claims) + 1
            /\ global' > global
            /\ \A i \in 1..Len(claims) :
                   claims[i].start < claims'[Len(claims')].start]_vars

\* Three fetch_add calls have returned, the last one to a thread other than
\* the one of the first.
C10_Witness ==
    /\ Len(claims) = 3
    /\ claims[1].by # claims[3].by
    /\ claims[1].start < claims[2].start
    /\ claims[2].start < claims[3].start

\* --------------------------------------------------------------- C11
\* C11: a started call of inc() is never stuck: it does not end in a panic,
\* and each of its remaining steps (the fetch_add, the hand-out) is enabled
\* whatever the state of the other threads, so that it returns after at most
\* one load, one fetch_add and the hand-out.
C11_NonBlocking ==
    \A s \in Seqs :
        /\ pc[s] # "panicked"
        /\ pc[s] = "alloc" => ENABLED Alloc(s)
        /\ pc[s] = "handout" => ENABLED Inc(s)

\* The scheduler keeps running a thread that is inside a call.
FairSpec == Spec /\ \A s \in Seqs : WF_vars(Alloc(s) \/ Inc(s))

\* A call that got past try_alloc returns, under weak fairness for its
\* thread alone.
PastTryAllocReturns ==
    \A s \in Seqs : (pc[s] \in {"alloc", "handout"}) ~> (pc[s] = "idle")

\* The part of C11 that holds: no step of a call past try_alloc is disabled,
\* and a call panics only in try_alloc, on the overflow of local + lag.
NonBlockingButOverflow ==
    \A s \in Seqs :
        /\ pc[s] = "panicked" =>
              (~call[s].read /\ Overflows(call[s].local0, lag[s]))
        /\ pc[s] = "alloc" => ENABLED Alloc(s)
        /\ pc[s] = "handout" => ENABLED Inc(s)

\* --------------------------------------------------------------- C12
\* This step enters a call of thread s and try_alloc decides to refill exactly
\* when local == target or local + lag < the counter value it reads.
DecidesByPolicy(s) ==
    (pc[s] = "idle" /\ pc'[s] # "idle") =>
        (pc'[s] = "alloc" <=>
            (local[s] = target[s] \/ local[s] + lag[s] < global))

\* What the steps of a call of thread s change: a refill is one
\* fetch_add(step) that sets local to the value returned and target to
\* that value + step; the hand-out returns local and advances it by 1; a
\* call that does not refill leaves the counter and target alone; step and
\* lag never change; the other threads' local and target are untouched.
FrameOfCall(s) ==
    /\ (pc[s] = "idle" /\ pc'[s] # "idle") =>
           (global' = global /\ local' = local /\ target' = target
               /\ claims' = claims /\ issued' = issued)
    /\ (pc[s] = "alloc" /\ pc'[s] = "handout") =>
        /\ global' = global + step[s]
        /\ local'[s] = global
        /\ target'[s] = global + step[s]
        /\ Len(claims') = Len(claims) + 1
        /\ issued' = issued
    /\ (pc[s] = "handout" /\ pc'[s] = "idle") =>
        /\ issued'[s] = Append(issued[s], local[s])
        /\ local'[s] = local[s] + 1
        /\ global' = global
        /\ target' = target
        /\ claims' = claims
        /\ call[s].refilled => issued'[s][Len(issued'[s])] = call[s].fa
    /\ pc[s] # "none" => (step'[s] = step[s] /\ lag'[s] = lag[s])
    /\ pc'[s] # pc[s] =>
           \A t \in Seqs \ {s} : local'[t] = local[t] /\ target'[t] = target[t]
    /\ \A n \in 1..MaxCalls :
           Cardinality({i \in 1..Len(claims') :
                           claims'[i].by = s /\ claims'[i].call = n}) <= 1

\* C12: a call refills if and only if local == target or local + lag < the
\* value it read; refilling and non-refilling calls change what FrameOfCall
\* says and nothing else.
C12_RefillStepAndFrame ==
    [][\A s \in Seqs : DecidesByPolicy(s) /\ FrameOfCall(s)]_vars

\* The part of C12 that holds: the frame in every step, and the decision
\* whenever local + lag fits in Sequence.
RefillStepAndFrameInRange ==
    [][\A s \in Seqs :
          /\ ~Overflows(local[s], lag[s]) => DecidesByPolicy(s)
          /\ FrameOfCall(s)]_vars

\* --------------------------------------------------------------- C13
\* Values of step at construction when the precondition step >= 1 is dropped.
ZeroStepSet == {0, BigStep}

\* Sequencer::new with a step that may be 0.
NewDegenerate(s) == \E st \in ZeroStepSet, lg \in LagSet : NewWith(s, st, lg)

NextZero ==
    \E s \in Seqs : NewDegenerate(s) \/ TryAlloc(s) \/ Alloc(s) \/ Inc(s)

\* The threads of Spec, their Sequencers built with step 0 or BigStep.
SpecZero == Init /\ [][NextZero]_vars

\* C13 as stated: every call of inc() on a Sequencer with step = 0 performs a
\* fetch_add.  Only runs in which none of its additions overflowed are looked
\* at, so that a violation does not rest on the overflow of local + lag.
C13_ZeroStepRefillsEveryCall ==
    \A s \in Seqs :
        (pc[s] # "none" /\ step[s] = 0 /\ ~overflowed[s]) =>
            \A n \in 1..Len(issued[s]) : Refilled(s, n)

\* C13 amended: a Sequencer with step = 0 refills on its first call; from
\* then on local is past target between calls, so exhaustion never triggers
\* again, and a later call refills exactly when its staleness test succeeds.
C13_ZeroStepRefillsFirstOrStale ==
    \A s \in Seqs :
        (pc[s] # "none" /\ step[s] = 0) =>
            /\ (Len(issued[s]) >= 1 \/ pc[s] = "handout") => Refilled(s, 1)
            /\ (pc[s] = "idle" /\ Len(issued[s]) >= 1) => local[s] > target[s]
            /\ (pc[s] \in {"handout", "idle"} /\ call[s].read) =>
                   (call[s].refilled <=>
                       Stale(call[s].local0, lag[s], call[s].seen))
            /\ \A i \in ClaimsOf(s) :
                   claims[i].call > 1 => claims[i].lo > claims[i].hi

\* A Sequencer with step = 0 returned from a second call that did not
\* refill and handed out the value after its first one.
C13_Witness ==
    \E s \in Seqs :
        /\ step[s] = 0
        /\ pc[s] = "idle"
        /\ Len(issued[s]) = 2
        /\ ~Refilled(s, 2)
        /\ issued[s][2] = issued[s][1] + 1

\* A Sequencer with step = 0 refilled in its second call, on staleness, the
\* other thread having advanced the counter.
ZeroStepStaleRefillReached ==
    \E s \in Seqs :
        /\ step[s] = 0
        /\ pc[s] = "idle"
        /\ Len(issued[s]) = 2
        /\ Refilled(s, 2)

\* --------------------------------------------------------------- C14
\* C14: every call of inc() on a Sequencer with lag = 0 and step >= 1
\* performs a fetch_add and returns the start of the range it claimed.
C14_ZeroLagRefillsEveryCall ==
    \A s \in Seqs :
        (pc[s] # "none" /\ lag[s] = 0 /\ step[s] >= 1) =>
            /\ \A n \in 1..Len(issued[s]) :
                   Refilled(s, n) /\ issued[s][n] = RefillStart(s, n)
            /\ pc[s] = "handout" =>
                   (call[s].refilled /\ local[s] = call[s].fa)

\* A Sequencer with lag 0 and step BigStep returned from two calls, the
\* other thread from one.
C14_Witness ==
    \E s, t \in Seqs :
        /\ s # t
        /\ lag[s] = 0
        /\ step[s] = BigStep
        /\ Len(issued[s]) = 2
        /\ Len(issued[t]) = 1

\* --------------------------------------------------------------- C15
\* The values of its old batch that the refill recorded as claims[i] left
\* unissued.
Abandoned(i) == claims[i].lo..(claims[i].hi - 1)

\* C15: no value that a refill abandoned (the rest [local, target) of the
\* batch it replaced) is returned by any call of any Sequencer.
C15_AbandonedNeverIssued ==
    \A i \in 1..Len(claims) : \A p \in Returned :
        issued[p[1]][p[2]] \notin Abandoned(i)

\* A Sequencer refilled while it still held unissued values and returned
\* from that call, and the other thread has returned a value as well.
C15_Witness ==
    \E i \in 1..Len(claims) : \E t \in Seqs :
        /\ Abandoned(i) # {}
        /\ t # claims[i].by
        /\ Len(issued[claims[i].by]) >= claims[i].call
        /\ Len(issued[t]) >= 1

\* --------------------------------------------------------------- C16
\* C16: every Sequencer has target <= the counter, and every value returned
\* is below the counter and inside a range the returning Sequencer claimed.
C16_NoUnclaimedIssued ==
    \A s \in Seqs :
        /\ target[s] <= global
        /\ \A n \in 1..Len(issued[s]) :
            /\ issued[s][n] < global
            /\ \E i \in ClaimsOf(s) : issued[s][n] \in Range(claims[i])

\* A Sequencer whose batch ends below the counter has returned a value that
\* is not the first of its range.
C16_Witness ==
    \E s \in Seqs :
        /\ pc[s] = "idle"
        /\ target[s] < global
        /\ \E n \in 1..Len(issued[s]) : \E i \in ClaimsOf(s) :
               /\ issued[s][n] \in Range(claims[i])
               /\ issued[s][n] > claims[i].start

\* --------------------------------------------------------------- C17
\* The sum over the threads of S of step times the number of refills.
RECURSIVE ClaimedBy(_)
ClaimedBy(S) ==
    IF S = {} THEN 0
    ELSE LET s == CHOOSE x \in S : TRUE
         IN  step[s] * Cardinality(ClaimsOf(s)) + ClaimedBy(S \ {s})

\* C17: the ranges claimed so far cover exactly [0, counter), and the counter
\* is the sum over the Sequencers of step times the number of their refills.
C17_ClaimsTileCounter ==
    /\ UNION {Range(claims[i]) : i \in 1..Len(claims)} = 0..(global - 1)
    /\ global = ClaimedBy(Seqs)

\* Two Sequencers with different steps have refilled, three times in all.
C17_Witness ==
    \E s, t \in Seqs :
        /\ step[s] < step[t]
        /\ ClaimsOf(s) # {}
        /\ ClaimsOf(t) # {}
        /\ Len(claims) = 3
        /\ global = ClaimedBy(Seqs)

\* --------------------------------------------------------------- C18
\* C18: a call that loaded the counter value g returns a value v with
\* v + lag >= g, whether it refilled or not and whatever the other threads
\* did between its load and its fetch_add.
C18_StalenessBoundAtRead ==
    \A s \in Seqs :
        call[s].read =>
            /\ pc[s] = "handout" => local[s] + lag[s] >= call[s].seen
            /\ pc[s] = "idle" =>
                   issued[s][Len(issued[s])] + lag[s] >= call[s].seen

\* The bound is against the value read only: a call that did not refill has
\* returned v while the counter, advanced by the other thread after the
\* load, is above v + lag.
C18_Witness ==
    \E s \in Seqs :
        /\ pc[s] = "idle"
        /\ call[s].read
        /\ ~call[s].refilled
        /\ lag[s] >= 1
        /\ issued[s][Len(issued[s])] + lag[s] >= call[s].seen
        /\ global > issued[s][Len(issued[s])] + lag[s]

\* A call found its batch stale, the other thread's fetch_add came between
\* its load and its own fetch_add, and it returned a value above the one read.
StaleRefillOvertakenReached ==
    \E s \in Seqs :
        /\ pc[s] = "idle"
        /\ call[s].read
        /\ call[s].refilled
        /\ call[s].fa > call[s].seen

\* --------------------------------------------------------------- C19
\* C19: a Sequencer with step >= 2 and lag + 1 < step refills in every call
\* and returns only the first value of each batch; alone on the counter it
\* returns 0, step, 2*step, ...
C19_BatchingCollapses ==
    \A s \in Seqs :
        (pc[s] # "none" /\ step[s] >= 2 /\ lag[s] + 1 < step[s]) =>
            /\ \A n \in 1..Len(issued[s]) :
                /\ Refilled(s, n)
                /\ issued[s][n] = RefillStart(s, n)
                /\ Sole(s) => issued[s][n] = (n - 1) * step[s]
            /\ pc[s] = "handout" => call[s].refilled

\* A lone Sequencer with step BigStep and lag + 1 < BigStep has returned
\* from every call the bound allows.
C19_Witness ==
    \E s \in Seqs :
        /\ Sole(s)
        /\ step[s] = BigStep
        /\ lag[s] + 1 < step[s]
        /\ Len(issued[s]) = MaxCalls
        /\ issued[s][MaxCalls] = (MaxCalls - 1) * BigStep

=============================================================================
